---- MODULE Spec2Model ----
(***************************************************************************)
(* lolopy estimator facade (python/lolopy/learners.py): the fit / predict  *)
(* / predict_proba methods of BaseLoloLearner, BaseRandomForest,           *)
(* RandomForestRegressor and RandomForestClassifier, with the JVM engine   *)
(* behind the py4j gateway as a nondeterministic environment.              *)
(*                                                                         *)
(* One estimator object is modelled.  Every method call is one action that *)
(* runs the whole method and leaves a record of the call (arguments,       *)
(* bridge operations in order, objects handed to the engine, exception or  *)
(* returned value) in the variable call; Return is the caller taking the   *)
(* result, after which the next call can be made.                          *)
(***************************************************************************)
EXTENDS Integers, Sequences, FiniteSets, TLC

VARIABLES
    variant,        \* "regressor" | "classifier": the concrete class
    num_trees,      \* self.num_trees
    useJackknife,   \* self.useJackknife
    subsetStrategy, \* self.subsetStrategy
    model_,         \* self.model_: 0 is None, h > 0 is the JVM model handle h
    n_classes_,     \* self.n_classes_: -1 while the attribute does not exist
    engine_model,   \* engine side: the newest trained model (its handle, its data)
    call            \* the method call in progress / just finished

vars == <<variant, num_trees, useJackknife, subsetStrategy, model_, n_classes_,
          engine_model, call>>

config == <<num_trees, useJackknife, subsetStrategy>>

----------------------------------------------------------------------------
(* Bounds of the model *)

MaxRows == 2        \* rows of X, entries of y and of weights
MaxTargets == 3     \* entries of y where only the labels vary
ProbUnit == 2       \* a probability of 1.0 is ProbUnit units

(* Program constants: the constructor's defaults *)
DefaultNumTrees == -1
DefaultSubsetStrategy == 4

----------------------------------------------------------------------------
(* Python values *)

None == [some |-> FALSE, val |-> <<>>]
Some(v) == [some |-> TRUE, val |-> v]

PyInt(v) == [t |-> "int", v |-> v]
PyFloat(v) == [t |-> "float", v |-> v]

\* float(y_i), int(y_i): the value keeps its magnitude and takes the type
float(e) == PyFloat(e.v)
int(e) == PyInt(e.v)

Min(a, b) == IF a <= b THEN a ELSE b

\* zip(X, y): pairs up to the shorter of the two
zip(X, y) == [i \in 1..Min(Len(X), Len(y)) |-> <<X[i], y[i]>>]

\* (variant) the length of y taken for the number of its distinct values
set_len_all(y) == Len(y)

RECURSIVE Distinct(_)
\* set(y) built by inserting the elements one by one (equal numbers collapse)
Distinct(y) ==
    IF y = <<>> THEN {}
    ELSE Distinct(Tail(y)) \cup {Head(y).v}

\* len(set(y))
set_len(y) == Cardinality(Distinct(y))

is_regressor == variant = "regressor"

----------------------------------------------------------------------------
(* Inputs *)

Labels == {0, 1, 2}

\* an n x m matrix whose rows differ from each other
Matrix(n, m) == [i \in 1..n |-> [j \in 1..m |-> 10 * i + j]]

ColumnCounts == {1, 2}

FeatureMatrices == {Matrix(n, m) : n \in 0..MaxRows, m \in ColumnCounts}

TargetVectors(maxlen) == UNION {[1..n -> {PyInt(l) : l \in Labels}] : n \in 0..maxlen}

\* targets given as Python ints or as floats (of whole value), also mixed
TypedTargets ==
    UNION {[1..n -> {PyInt(l) : l \in Labels} \cup {PyFloat(l) : l \in Labels}] :
              n \in 1..MaxRows}

Ones(n) == [i \in 1..n |-> 1]
Ramp(n) == [i \in 1..n |-> i + 1]

WeightArgs == {None} \cup {Some(Ones(n)) : n \in 1..MaxRows}
                     \cup {Some(Ramp(n)) : n \in 1..MaxRows}

\* where the bridge raises during a fit call ("none": nowhere)
FitFaults == {"none", "RandomForest", "ArrayList", "train"}

----------------------------------------------------------------------------
(* The call record *)

NoCall == [op |-> "none"]

Idle == call.op = "none"

----------------------------------------------------------------------------
(* fit *)

\* BaseRandomForest._make_learner: the constructor call on the JVM
make_learner == [num_trees |-> num_trees, useJackknife |-> useJackknife,
                 subsetStrategy |-> subsetStrategy]

\* (variant) every record a pair, whether or not weights were given
train_record_pair(x_i, y_i, weights) ==
    <<x_i, IF is_regressor THEN float(y_i) ELSE int(y_i)>>

\* (variant) the target handed on as the caller gave it
train_record_as_given(x_i, y_i, weights) ==
    IF ~weights.some THEN <<x_i, y_i, PyFloat(1)>> ELSE <<x_i, y_i>>

\* one (x_i, y_i) pair of the loop of _convert_train_data
train_record(x_i, y_i, weights) ==
    LET y_java == IF is_regressor THEN float(y_i) ELSE int(y_i)
    IN  IF ~weights.some THEN <<x_i, y_java, PyFloat(1)>>   \* scala.Tuple3
        ELSE <<x_i, y_java>>                                \* scala.Tuple2

\* BaseLoloLearner._convert_train_data: (train_data, weights_java)
convert_train_data(X, y, weights) ==
    LET pairs == zip(X, y)
    IN  [train_data |-> [i \in 1..Len(pairs) |->
                            train_record(pairs[i][1], pairs[i][2], weights)],
         weights_java |-> IF weights.some
                          THEN Some([i \in 1..Len(weights.val) |-> PyFloat(weights.val[i])])
                          ELSE None]

\* the bridge operations of _convert_train_data, in order
convert_train_ops(X, y, weights) ==
    LET n == Min(Len(X), Len(y))
        row == <<"ListConverter", IF weights.some THEN "Tuple2" ELSE "Tuple3", "append">>
    IN  <<"ArrayList">> \o [k \in 1..(3 * n) |-> row[((k - 1) % 3) + 1]]
        \o <<"asScalaBuffer">>
        \o (IF weights.some THEN <<"ListConverter", "asScalaBuffer">> ELSE <<>>)

\* the engine refuses to train on no record at all
EngineTrains(train_data) == Len(train_data) >= 1

\* what the engine keeps of a training bundle
EngineModel(train_data) ==
    [labels |-> {train_data[i][2].v : i \in 1..Len(train_data)},
     ncols |-> Len(train_data[1][1])]

\* BaseLoloLearner.fit: the run of one call, fault being where the bridge raises
fit_run(X, y, weights, fault) ==
    LET data == convert_train_data(X, y, weights)
        trainOps == IF weights.some THEN <<"Some", "train">> ELSE <<"train">>
        base == [learner |-> None, train_data |-> None, train_weights |-> None,
                 trained |-> FALSE]
    IN  IF fault = "RandomForest"
        THEN [base EXCEPT !.trained = FALSE]
               @@ [ops |-> <<"RandomForest">>, outcome |-> "Py4JJavaError"]
        ELSE IF fault = "ArrayList"
        THEN [base EXCEPT !.learner = Some(make_learner)]
               @@ [ops |-> <<"RandomForest", "ArrayList">>, outcome |-> "Py4JJavaError"]
        ELSE IF fault = "train" \/ ~EngineTrains(data.train_data)
        THEN [base EXCEPT !.learner = Some(make_learner),
                          !.train_data = Some(data.train_data),
                          !.train_weights = data.weights_java]
               @@ [ops |-> <<"RandomForest">> \o convert_train_ops(X, y, weights) \o trainOps,
                   outcome |-> "Py4JJavaError"]
        ELSE [base EXCEPT !.learner = Some(make_learner),
                          !.train_data = Some(data.train_data),
                          !.train_weights = data.weights_java,
                          !.trained = TRUE]
               @@ [ops |-> <<"RandomForest">> \o convert_train_ops(X, y, weights)
                           \o trainOps \o <<"getModel">>,
                   outcome |-> "ok"]

\* (variant) the class count of an earlier fit kept by the later ones
fit_n_classes_cached(y) ==
    IF is_regressor \/ n_classes_ >= 0 THEN n_classes_ ELSE set_len(y)

\* RandomForestClassifier.fit sets n_classes_ and then runs BaseLoloLearner.fit
fit_n_classes(y) == IF is_regressor THEN n_classes_ ELSE set_len(y)

\* the handle of a newly trained model: none of the handles in use
FreshHandle == IF model_ = 1 THEN 2 ELSE 1

\* (variant) the old model dropped as soon as fit starts
fit_model_reset(run) == IF run.trained THEN FreshHandle ELSE 0

\* (variant) the model of the first successful fit kept for good
fit_model_keep_first(run) ==
    IF run.trained /\ model_ = 0 THEN FreshHandle ELSE model_

\* self.model_ after the call
fit_model(run) == IF run.trained THEN FreshHandle ELSE model_

fit(X, y, weights, fault) ==
    LET run == fit_run(X, y, weights, fault)
    IN  /\ n_classes_' = fit_n_classes(y)
        /\ model_' = fit_model(run)
        /\ engine_model' = IF run.trained
                           THEN EngineModel(run.train_data.val) @@ [handle |-> FreshHandle]
                           ELSE engine_model
        /\ call' = run @@ [op |-> "fit", X |-> X, y |-> y, weights |-> weights,
                           pre_model |-> model_, pre_n_classes |-> n_classes_]
        /\ UNCHANGED <<variant, num_trees, useJackknife, subsetStrategy>>

Fit ==
    /\ Idle
    /\ \E X \in FeatureMatrices, y \in TargetVectors(MaxRows), weights \in WeightArgs,
          fault \in FitFaults : fit(X, y, weights, fault)

\* fit calls in which only the labels of y vary
FitLabels ==
    /\ Idle
    /\ \E y \in TargetVectors(MaxTargets), fault \in {"none", "train"} :
          fit(Matrix(Len(y), 1), y, None, fault)

\* fit calls in which the type of the entries of y varies
FitTypes ==
    /\ Idle
    /\ \E y \in TypedTargets, weighted \in BOOLEAN, fault \in {"none", "train"} :
          fit(Matrix(Len(y), 1), y, IF weighted THEN Some(Ones(Len(y))) ELSE None, fault)

----------------------------------------------------------------------------
(* The engine's answers to transform *)

\* the label of largest probability, the smallest such label on a tie
ArgMax(p) ==
    CHOOSE l \in DOMAIN p :
        \A k \in DOMAIN p : p[l] > p[k] \/ (p[l] = p[k] /\ l <= k)

\* the class probabilities of one record: a sparse map from some of the labels
\* the model was trained on to their probabilities, which sum to 1.0
ProbMaps(labels) ==
    {[l \in {a} |-> ProbUnit] : a \in labels}
    \cup {[l \in {ab[1], ab[2]} |-> IF l = ab[1] THEN 1 ELSE ProbUnit - 1] :
            ab \in {p \in labels \X labels : p[1] # p[2]}}

\* the PredictionResult objects transform may return for K records: one expected
\* value per record, and an uncertainty (Option) that is a standard deviation
\* per record for a regression model and a probability map per record for a
\* classification model
PredictionResults(K) ==
    IF is_regressor
    THEN {[expected |-> [i \in 1..K |-> PyFloat(s + 2 * i)], uncertainty |-> u] :
            s \in {0, 1}, u \in {None, Some([i \in 1..K |-> PyFloat(i)])}}
    ELSE UNION {{[expected |-> [i \in 1..K |-> PyInt(ArgMax(p[i]))], uncertainty |-> u] :
                    u \in {None, Some(p)}} :
                p \in [1..K -> ProbMaps(engine_model.labels)]}

\* the answers a call may meet: while the engine holds no model transform is
\* not reached, and one placeholder stands for the answer never given
Answers(K) ==
    IF engine_model.handle = 0
    THEN {[expected |-> [i \in 1..K |-> PyInt(0)], uncertainty |-> None]}
    ELSE PredictionResults(K)

\* where the bridge raises during a predict / predict_proba call
PredictFaults == {"none", "ArrayList", "transform"}

----------------------------------------------------------------------------
(* predict, predict_proba *)

\* BaseLoloLearner._convert_run_data: every row copied into a Vector, the
\* Vectors collected in row order
convert_run_data(X) == [i \in 1..Len(X) |-> [j \in 1..Len(X[i]) |-> X[i][j]]]

\* (variant) the conversion put off until the model is there to take it
convert_run_ops_deferred(X) == <<>>

\* the bridge operations of _convert_run_data, in order
convert_run_ops(X) ==
    LET row == <<"ListConverter", "append">>
    IN  <<"ArrayList">> \o [k \in 1..(2 * Len(X)) |-> row[((k - 1) % 2) + 1]]
        \o <<"asScalaBuffer">>

Repeat(op, n) == [k \in 1..n |-> op]

\* (variant) a placeholder that never reads as None
no_model_never == FALSE

\* self.model_ is still the placeholder None: self.model_.transform raises
no_model == model_ = 0

\* (variant) zeros standing in for an uncertainty the result does not carry
read_uncertainty_or_zeros(result) ==
    IF result.uncertainty.some THEN result.uncertainty
    ELSE Some([i \in 1..Len(result.expected) |-> PyFloat(0)])

\* pred_result.getUncertainty(): a scala Option, whose get() raises on None
read_uncertainty(result) == result.uncertainty

\* the dtype numpy gives an array made from a list of Python numbers
dtype_of(list) ==
    IF \E i \in 1..Len(list) : list[i].t = "float" THEN "float"
    ELSE IF list = <<>> THEN "float" ELSE "int"

\* storing a number into an array of the given dtype
astype(e, dtype) == IF dtype = "float" THEN PyFloat(e.v) ELSE PyInt(e.v)

\* (variant) the expected values read back to front
expected_list_reversed(exp_values, X) ==
    [i \in 1..Len(X) |-> exp_values[Len(X) + 1 - i]]

\* [exp_values.apply(i) for i in range(len(X))]
expected_list(exp_values, X) == [i \in 1..Len(X) |-> exp_values[i]]

\* y_std = np.zeros_like(y_pred); y_std[i] = uncertain.apply(i)
std_array(y_pred, uncertain, X) ==
    [i \in 1..Len(X) |-> astype(uncertain[i], dtype_of(y_pred))]

\* (variant) the operation that raised tried a second time before giving up
call_failed_retry(ops, outcome, cause, handle) ==
    [ops |-> ops \o <<ops[Len(ops)]>>, outcome |-> outcome, cause |-> cause,
     handle |-> handle, X_java |-> None, pred_result |-> None, returned |-> None]

\* a call that ends in an exception: the operations up to the one that raised,
\* nothing returned
call_failed(ops, outcome, cause, handle) ==
    [ops |-> ops, outcome |-> outcome, cause |-> cause, handle |-> handle,
     X_java |-> None, pred_result |-> None, returned |-> None]

\* BaseRandomForest.predict: the run of one call; fault is where the bridge
\* raises and result the PredictionResult the engine returns
predict_run(X, return_std, fault, result) ==
    LET ops1 == convert_run_ops(X)
        ops2 == ops1 \o <<"transform", "getExpected">> \o Repeat("apply", Len(X))
        y_pred == expected_list(result.expected, X)
        done == [ops |-> ops2, outcome |-> "ok", cause |-> "", handle |-> model_,
                 X_java |-> Some(convert_run_data(X)), pred_result |-> Some(result),
                 returned |-> Some(<<y_pred>>)]
    IN  IF fault = "ArrayList"
        THEN call_failed(<<"ArrayList">>, "Py4JJavaError", "engine", 0)
        ELSE IF no_model
        THEN call_failed(ops1, "AttributeError", "NoneType", 0)
        ELSE IF fault = "transform"
        THEN [call_failed(ops1 \o <<"transform">>, "Py4JJavaError", "engine", model_)
                EXCEPT !.X_java = Some(convert_run_data(X))]
        ELSE IF ~return_std
        THEN done
        ELSE IF ~read_uncertainty(result).some
        THEN [done EXCEPT !.ops = ops2 \o <<"getUncertainty", "get">>,
                          !.outcome = "Py4JJavaError",
                          !.cause = "NoSuchElementException",
                          !.returned = None]
        ELSE [done EXCEPT !.ops = ops2 \o <<"getUncertainty", "get">>
                                  \o Repeat("apply", Len(X)),
                          !.returned = Some(<<y_pred,
                                std_array(y_pred, read_uncertainty(result).val, X)>>)]

\* (variant) the classes looked up from 1 instead of 0
getOrDefault_from_one(prob, j, default) ==
    IF j + 1 \in DOMAIN prob THEN prob[j + 1] ELSE default

\* java.util.Map.getOrDefault
getOrDefault(prob, j, default) == IF j \in DOMAIN prob THEN prob[j] ELSE default

\* the output array of predict_proba: zeros((len(X), n_classes_)) filled from
\* the engine's probability maps
proba_output(prob_array, X) ==
    [i \in 1..Len(X) |-> [j \in 0..(n_classes_ - 1) |->
        IF i <= Len(prob_array) THEN getOrDefault(prob_array[i], j, 0) ELSE 0]]

\* RandomForestClassifier.predict_proba: the run of one call
predict_proba_run(X, fault, result) ==
    LET ops1 == convert_run_ops(X)
        ops2 == ops1 \o <<"transform", "getUncertainty", "get">>
    IN  IF fault = "ArrayList"
        THEN call_failed(<<"ArrayList">>, "Py4JJavaError", "engine", 0)
        ELSE IF no_model
        THEN call_failed(ops1, "AttributeError", "NoneType", 0)
        ELSE IF fault = "transform"
        THEN [call_failed(ops1 \o <<"transform">>, "Py4JJavaError", "engine", model_)
                EXCEPT !.X_java = Some(convert_run_data(X))]
        ELSE IF n_classes_ < 0
        THEN [call_failed(ops1 \o <<"transform">>, "AttributeError", "n_classes_", model_)
                EXCEPT !.X_java = Some(convert_run_data(X)),
                       !.pred_result = Some(result)]
        ELSE IF ~result.uncertainty.some
        THEN [call_failed(ops2, "Py4JJavaError", "NoSuchElementException", model_)
                EXCEPT !.X_java = Some(convert_run_data(X)),
                       !.pred_result = Some(result)]
        ELSE [ops |-> ops2 \o <<"asJavaCollection", "toArray">>
                      \o Repeat("mapAsJavaMap", Len(result.uncertainty.val)),
              outcome |-> "ok", cause |-> "", handle |-> model_,
              X_java |-> Some(convert_run_data(X)), pred_result |-> Some(result),
              returned |-> Some(proba_output(result.uncertainty.val, X))]

\* (variant) a query that fails takes the model with it
query_forgets(run, op, X, return_std) ==
    /\ call' = run @@ [op |-> op, X |-> X, return_std |-> return_std,
                       pre_model |-> model_, pre_n_classes |-> n_classes_]
    /\ model_' = IF run.outcome = "ok" THEN model_ ELSE 0
    /\ UNCHANGED <<variant, num_trees, useJackknife, subsetStrategy,
                   n_classes_, engine_model>>

\* the effect of predict and predict_proba on the estimator
query(run, op, X, return_std) ==
    /\ call' = run @@ [op |-> op, X |-> X, return_std |-> return_std,
                       pre_model |-> model_, pre_n_classes |-> n_classes_]
    /\ UNCHANGED <<variant, num_trees, useJackknife, subsetStrategy, model_,
                   n_classes_, engine_model>>

predict(X, return_std, fault, result) ==
    query(predict_run(X, return_std, fault, result), "predict", X, return_std)

predict_proba(X, fault, result) ==
    query(predict_proba_run(X, fault, result), "predict_proba", X, FALSE)

\* RandomForestClassifier.predict(X) is predict(X, False)
Predict ==
    /\ Idle
    /\ \E X \in FeatureMatrices, fault \in PredictFaults,
          return_std \in (IF is_regressor THEN BOOLEAN ELSE {FALSE}) :
          \E result \in Answers(Len(X)) :
              predict(X, return_std, fault, result)

PredictProba ==
    /\ Idle
    /\ ~is_regressor
    /\ \E X \in FeatureMatrices, fault \in PredictFaults :
          \E result \in Answers(Len(X)) :
              predict_proba(X, fault, result)

----------------------------------------------------------------------------
Return ==
    /\ ~Idle
    /\ call' = NoCall
    /\ UNCHANGED <<variant, num_trees, useJackknife, subsetStrategy, model_,
                   n_classes_, engine_model>>

Init ==
    /\ variant \in {"regressor", "classifier"}
    /\ num_trees = DefaultNumTrees
    /\ useJackknife \in BOOLEAN
    /\ subsetStrategy = DefaultSubsetStrategy
    /\ model_ = 0
    /\ n_classes_ = -1
    /\ engine_model = [labels |-> {}, ncols |-> 0, handle |-> 0]
    /\ call = NoCall

Next == Fit \/ Predict \/ PredictProba \/ Return

Spec == Init /\ [][Next]_vars

NextLabels == FitLabels \/ Return

SpecLabels == Init /\ [][NextLabels]_vars

NextTypes == FitTypes \/ Return

SpecTypes == Init /\ [][NextTypes]_vars

----------------------------------------------------------------------------
(* Properties *)

IsQuery == call.op \in {"predict", "predict_proba"}
IsFit == call.op = "fit"
Failed == call.outcome # "ok"

\* the engine's PredictionResult of the call, when transform returned one
EngineResult == call.pred_result.val

\* lengths of the arguments of a fit call disagree
Mismatched ==
    \/ Len(call.X) # Len(call.y)
    \/ call.weights.some /\ Len(call.weights.val) # Len(call.y)

\* C1 as stated: on an estimator that was never fitted, predict and
\* predict_proba fail with the NotFittedError kind.
C1_NotFittedError ==
    (IsQuery /\ call.pre_model = 0) => call.outcome = "NotFittedError"

\* C1 as amended: on an estimator that was never fitted, predict and
\* predict_proba always fail and return nothing; the error is the
\* AttributeError of looking transform up on None, unless the bridge already
\* failed while X was being converted.
C1_UntrainedQueryFails ==
    (IsQuery /\ call.pre_model = 0) =>
        /\ Failed
        /\ call.returned = None
        /\ "transform" \notin {call.ops[k] : k \in DOMAIN call.ops}
        /\ \/ call.outcome = "AttributeError" /\ call.cause = "NoneType"
           \/ call.outcome = "Py4JJavaError" /\ call.ops = <<"ArrayList">>

C1_Witness ==
    /\ call.op = "predict" /\ call.pre_model = 0 /\ Len(call.X) = MaxRows
    /\ call.outcome = "AttributeError"

\* C2: a fit call that fails leaves the estimator with the model handle it had
\* before the call (none if it had none); the handle changes only when fit
\* succeeds, and then to a new handle.
C2_AtomicFit ==
    IsFit =>
        /\ Failed => model_ = call.pre_model
        /\ model_ # call.pre_model => (~Failed /\ model_ # 0)
        /\ ~Failed => (model_ # call.pre_model /\ model_ # 0)

C2_Witness ==
    /\ IsFit /\ Failed /\ call.pre_model # 0 /\ model_ = call.pre_model
    /\ call.ops[Len(call.ops)] = "train"

\* C3 as stated, for the calls in which the bridge itself raises nothing: a fit
\* call whose X, y and weights disagree in length fails with ShapeMismatch and
\* reaches the engine with no record and no train call.
C3_ShapeMismatch ==
    (IsFit /\ Mismatched /\ call.outcome # "Py4JJavaError") =>
        /\ call.outcome = "ShapeMismatch"
        /\ ~call.train_data.some
        /\ "train" \notin {call.ops[k] : k \in DOMAIN call.ops}

\* C5 as stated: in a fit call without weights that trains a model, the engine
\* receives exactly what it receives from the same call with weights of N ones.
C5_SameAsOnes ==
    (IsFit /\ ~call.weights.some /\ ~Failed) =>
        LET ones == convert_train_data(call.X, call.y, Some(Ones(Len(call.y))))
        IN  /\ call.train_data.val = ones.train_data
            /\ call.train_weights = ones.weights_java

\* C5 as amended: without weights every record goes to the engine as a triple
\* (x_i, y_i, 1.0) and train is called with the bundle alone; with weights
\* every record goes as a pair (x_i, y_i) and train is called with the bundle
\* and Some(weights), the weights as the caller gave them.
C5_WeightPaths ==
    (IsFit /\ call.train_data.some) =>
        LET data == call.train_data.val
            opset == {call.ops[k] : k \in DOMAIN call.ops}
        IN  /\ Len(data) = Min(Len(call.X), Len(call.y))
            /\ \A i \in 1..Len(data) : data[i][1] = call.X[i] /\ data[i][2].v = call.y[i].v
            /\ ~call.weights.some =>
                  /\ \A i \in 1..Len(data) : Len(data[i]) = 3 /\ data[i][3] = PyFloat(1)
                  /\ call.train_weights = None
                  /\ "Some" \notin opset /\ "Tuple2" \notin opset
            /\ call.weights.some =>
                  /\ \A i \in 1..Len(data) : Len(data[i]) = 2
                  /\ call.train_weights.some
                  /\ Len(call.train_weights.val) = Len(call.weights.val)
                  /\ \A i \in 1..Len(call.weights.val) :
                        call.train_weights.val[i].v = call.weights.val[i]
                  /\ "Tuple3" \notin opset

C5_Witness ==
    /\ IsFit /\ ~Failed /\ ~call.weights.some
    /\ Len(call.train_data.val) = MaxRows

\* the case of C6: uncertainty requested of a fitted estimator, the engine's
\* result carrying none
NoUncertaintyCase ==
    /\ call.op = "predict" /\ call.return_std /\ call.pre_model # 0
    /\ call.pred_result.some /\ ~EngineResult.uncertainty.some

\* C6 as stated: predict with uncertainty requested fails with the
\* UncertaintyUnavailable kind when the engine's result carries none.
C6_UncertaintyUnavailable ==
    NoUncertaintyCase => call.outcome = "UncertaintyUnavailable"

\* C6 as amended: predict with uncertainty requested, the engine's result
\* carrying none, fails with the NoSuchElementException that Option.get raises
\* in the engine (a Py4JJavaError), and returns nothing: no array of zeros.
C6_NoFabricatedUncertainty ==
    NoUncertaintyCase =>
        /\ call.outcome = "Py4JJavaError"
        /\ call.cause = "NoSuchElementException"
        /\ call.returned = None

C6_Witness == NoUncertaintyCase /\ Len(call.X) = MaxRows /\ Failed

\* C7: predict_proba returns len(X) rows of n_classes_ entries; entry (i, j)
\* is the probability of class j in the engine's map for record i, and 0 where
\* that map has no class j.
C7_ProbaMatrix ==
    (call.op = "predict_proba" /\ ~Failed) =>
        LET out == call.returned.val
            probs == EngineResult.uncertainty.val
        IN  /\ Len(out) = Len(call.X)
            /\ \A i \in 1..Len(out) :
                  /\ DOMAIN out[i] = 0..(n_classes_ - 1)
                  /\ \A j \in DOMAIN out[i] :
                        /\ j \in DOMAIN probs[i] => out[i][j] = probs[i][j]
                        /\ j \notin DOMAIN probs[i] => out[i][j] = 0

C7_Witness ==
    /\ call.op = "predict_proba" /\ ~Failed /\ Len(call.X) = MaxRows
    /\ n_classes_ = 2
    /\ call.returned.val[1][0] = 0 /\ call.returned.val[1][1] = ProbUnit
    /\ call.returned.val[2][0] > 0

RECURSIVE RowSum(_, _)
\* the sum of the first n entries of a row of the probability matrix
RowSum(row, n) == IF n = 0 THEN 0 ELSE row[n - 1] + RowSum(row, n - 1)

\* C8 as stated: every row of the predict_proba output sums to 1.0.
C8_RowsSumToOne ==
    (call.op = "predict_proba" /\ ~Failed) =>
        \A i \in 1..Len(call.returned.val) :
            RowSum(call.returned.val[i], n_classes_) = ProbUnit

\* C9: a classifier's fit sets n_classes_ to the number of distinct labels of
\* the y it is given, whatever their order and repetition, and has done so
\* when train is called: also when the call fails there or earlier.
C9_ClassCount ==
    (IsFit /\ ~is_regressor) =>
        n_classes_ = Cardinality({call.y[i].v : i \in 1..Len(call.y)})

C9_Witness ==
    /\ IsFit /\ ~is_regressor /\ Failed
    /\ call.ops[Len(call.ops)] = "train"
    /\ Len(call.y) = MaxTargets /\ n_classes_ = 2
    /\ call.y[1].v > call.y[2].v

\* C10: predict on K rows returns K point estimates, the i-th the engine's
\* expected value for record i; with uncertainty requested it returns a second
\* vector of K entries, the i-th the engine's uncertainty for record i.
C10_PredictVectors ==
    (call.op = "predict" /\ ~Failed) =>
        LET out == call.returned.val
            K == Len(call.X)
        IN  /\ Len(out) = IF call.return_std THEN 2 ELSE 1
            /\ Len(out[1]) = K
            /\ \A i \in 1..K : out[1][i] = EngineResult.expected[i]
            /\ call.return_std =>
                  /\ Len(out[2]) = K
                  /\ \A i \in 1..K : out[2][i] = EngineResult.uncertainty.val[i]

C10_Witness ==
    /\ call.op = "predict" /\ ~Failed /\ call.return_std
    /\ Len(call.X) = MaxRows

\* the bridge operations of the call, as a set
OpSet == {call.ops[k] : k \in DOMAIN call.ops}

\* how many times the bridge operation op was invoked in the call
Count(op) == Cardinality({k \in DOMAIN call.ops : call.ops[k] = op})

\* C11 as stated, for the calls in which the bridge itself raises nothing: when
\* the bundle does not hold N = len(X) records, or the weight buffer does not
\* hold N entries, fit aborts with AssemblyError and train is not invoked.
C11_AssemblyChecked ==
    (IsFit /\ call.train_data.some /\ call.outcome # "Py4JJavaError"
       /\ \/ Len(call.train_data.val) # Len(call.X)
          \/ call.train_weights.some /\ Len(call.train_weights.val) # Len(call.X)) =>
        /\ call.outcome = "AssemblyError"
        /\ "train" \notin OpSet

\* C12 as stated: predict and predict_proba on an estimator that was never
\* fitted perform no bridge operation at all.
C12_NoBridgeOperation ==
    (IsQuery /\ call.pre_model = 0) => call.ops = <<>>

\* C12 as amended: predict and predict_proba on an estimator that was never
\* fitted never invoke transform, on no handle; but before failing they convert
\* X over the bridge: an ArrayList is created, every row is converted and
\* appended, and the list is wrapped, unless the bridge fails on the way.
C12_ConvertsThenFails ==
    (IsQuery /\ call.pre_model = 0) =>
        /\ Count("transform") = 0
        /\ call.handle = 0
        /\ ~call.pred_result.some
        /\ call.ops # <<>> /\ call.ops[1] = "ArrayList"
        /\ call.outcome = "AttributeError" =>
              /\ Count("ListConverter") = Len(call.X)
              /\ Count("append") = Len(call.X)
              /\ call.ops[Len(call.ops)] = "asScalaBuffer"

C12_Witness ==
    /\ call.op = "predict_proba" /\ call.pre_model = 0
    /\ call.outcome = "AttributeError"
    /\ Len(call.X) = MaxRows /\ Count("ListConverter") = MaxRows

\* what fit leaves on an estimator constructed a moment ago and in the engine,
\* written out from the arguments of the call alone: the learner built, the
\* bundle and the weights sent, the data of the trained model, the class count
FirstFitOf(X, y, weights) ==
    LET n == IF Len(X) <= Len(y) THEN Len(X) ELSE Len(y)
        t == IF variant = "regressor" THEN "float" ELSE "int"
    IN  [learner |-> Some([num_trees |-> DefaultNumTrees, useJackknife |-> useJackknife,
                           subsetStrategy |-> DefaultSubsetStrategy]),
         train_data |-> Some([i \in 1..n |->
                            IF weights.some
                            THEN <<X[i], [t |-> t, v |-> y[i].v]>>
                            ELSE <<X[i], [t |-> t, v |-> y[i].v], [t |-> "float", v |-> 1]>>]),
         train_weights |-> IF weights.some
                           THEN Some([i \in 1..Len(weights.val) |->
                                        [t |-> "float", v |-> weights.val[i]]])
                           ELSE None,
         labels |-> {y[i].v : i \in 1..n},
         ncols |-> Len(X[1]),
         n_classes |-> IF variant = "regressor" THEN -1
                       ELSE Cardinality({y[i].v : i \in 1..Len(y)})]

\* C13: whatever the estimator went through before, a fit call that succeeds
\* builds the learner, sends the data and leaves the class count and the
\* engine's model exactly as the first fit of a new estimator of the same
\* configuration does with these arguments; all that later predictions depend
\* on is the same, only the handle is a new one.
C13_RefitAsFresh ==
    (IsFit /\ ~Failed) =>
        LET first == FirstFitOf(call.X, call.y, call.weights)
        IN  /\ call.learner = first.learner
            /\ call.train_data = first.train_data
            /\ call.train_weights = first.train_weights
            /\ engine_model.labels = first.labels
            /\ engine_model.ncols = first.ncols
            /\ n_classes_ = first.n_classes
            /\ model_ # call.pre_model /\ engine_model.handle = model_

C13_Witness ==
    /\ IsFit /\ ~Failed /\ ~is_regressor
    /\ call.pre_model # 0 /\ call.pre_n_classes = 1 /\ n_classes_ = 2
    /\ Len(call.train_data.val) = MaxRows /\ call.weights.some

\* C14 as stated, for the calls in which the bridge itself raises nothing:
\* predict on a fitted estimator, the rows of X not as wide as the rows the
\* model was trained on, fails with ShapeMismatch and transform is not invoked.
C14_ColumnsChecked ==
    (call.op = "predict" /\ call.pre_model # 0 /\ call.outcome # "Py4JJavaError"
       /\ Len(call.X) >= 1 /\ Len(call.X[1]) # engine_model.ncols) =>
        /\ call.outcome = "ShapeMismatch"
        /\ Count("transform") = 0

\* C15: the estimator holds a model exactly when some fit has succeeded, and
\* the model it holds is the one the newest successful train returned; no call
\* takes a model away; fit is carried out with or without a model held; and
\* transform is only ever invoked on the handle of the newest successful fit.
C15_Lifecycle ==
    /\ model_ = engine_model.handle
    /\ model_ \in 0..2
    /\ ~Idle =>
          /\ call.pre_model # 0 => model_ # 0
          /\ (IsFit /\ ~Failed) => (model_ # 0 /\ model_ # call.pre_model)
          /\ (IsFit /\ Failed) => model_ = call.pre_model
          /\ (IsQuery /\ Count("transform") > 0) =>
                /\ call.handle # 0
                /\ call.handle = engine_model.handle
                /\ call.handle = call.pre_model

C15_Witness ==
    /\ IsQuery /\ ~Failed /\ Count("transform") = 1
    /\ call.handle = 2 /\ engine_model.handle = 2

\* C16 as stated: on a classifier that holds a model, n_classes_ is the number
\* of distinct labels of the y whose fit produced that model: a fit that
\* succeeds sets it from its y, and every other call, a re-fit that fails
\* included, leaves it as it was.
C16_ClassCountOfHeldModel ==
    (~is_regressor /\ ~Idle /\ model_ # 0) =>
        IF IsFit /\ ~Failed
        THEN n_classes_ = Cardinality({call.y[i].v : i \in 1..Len(call.y)})
        ELSE n_classes_ = call.pre_n_classes

\* C17: in one fit call the learner is built at most once and train invoked at
\* most once, in one predict or predict_proba call transform is invoked at most
\* once; when the bridge raises, the operation that raised is the last of the
\* call and was invoked once, a fit stores no model and a query returns nothing.
C17_NoRetry ==
    ~Idle =>
        /\ Count("RandomForest") <= 1
        /\ Count("train") <= 1
        /\ Count("transform") <= 1
        /\ IsFit => Count("RandomForest") = 1
        /\ call.outcome = "Py4JJavaError" =>
              /\ Count(call.ops[Len(call.ops)]) = 1
              /\ IsFit => (~call.trained /\ model_ = call.pre_model
                             /\ "getModel" \notin OpSet)
              /\ IsQuery => call.returned = None

C17_Witness ==
    /\ IsQuery /\ call.outcome = "Py4JJavaError" /\ call.cause = "engine"
    /\ call.ops[Len(call.ops)] = "transform" /\ Len(call.X) = MaxRows

\* C18: a predict or predict_proba call, whether it succeeds or fails, leaves
\* the model handle, the class count and the constructor's settings as they
\* were, and so does the return from it: nothing of the call, the engine's
\* result included, stays on the estimator.
C18_QueryFrame ==
    [][(call'.op \in {"predict", "predict_proba"} \/ (IsQuery /\ call'.op = "none")) =>
          /\ model_' = model_
          /\ n_classes_' = n_classes_
          /\ config' = config
          /\ variant' = variant]_vars

C18_Witness ==
    /\ call.op = "predict_proba" /\ Failed /\ call.pred_result.some
    /\ call.pre_model # 0 /\ model_ = call.pre_model
    /\ n_classes_ = call.pre_n_classes /\ Len(call.X) = MaxRows

\* C19: every training record a regressor sends carries its target as a
\* float and every record a classifier sends carries it as an int, with and
\* without weights, whether the caller gave the target as an int or a float;
\* the value is the caller's.
C19_TargetKind ==
    (IsFit /\ call.train_data.some) =>
        \A i \in 1..Len(call.train_data.val) :
            /\ call.train_data.val[i][2].t = (IF variant = "regressor" THEN "float" ELSE "int")
            /\ call.train_data.val[i][2].v = call.y[i].v

C19_Witness ==
    /\ IsFit /\ ~Failed /\ variant = "classifier" /\ call.weights.some
    /\ Len(call.train_data.val) = MaxRows
    /\ call.y[1].t = "float" /\ call.y[2].t = "int"
    /\ call.train_data.val[1][2].t = "int"

====
